---- MODULE Spec2Model ----
(***************************************************************************)
(* AudioListener (src/src/audio_listener.py): the capture callback, the    *)
(* processing loop with its segmentation state machine, pause/resume,      *)
(* start/stop and the rolling transcript store.                            *)
(*                                                                         *)
(* Time: clock models time.time(); silence_timeout and history_seconds are *)
(* held in the clock's unit (milliseconds in the scenario configuration,   *)
(* a coarse tick in the small test configuration).                         *)
(***************************************************************************)
EXTENDS Integers, Sequences, FiniteSets, TLC

\* ---------------------------------------------------------------- bounds
\* frames the capture device delivers in one run
MaxFrames == 3
\* last value of the clock
MaxClock == 2
\* transcript segments appended in one run of the store specification
MaxSegments == 3
\* the scenario of 13 speech frames followed by 40 non-speech frames
ScenSpeech == 13
ScenSilence == 40
\* frames the scenario lets wait in the queue
ScenQueue == 2
\* the utterance with a pause for breath: speech frames before and after the
\* pause, non-speech frames of the pause
GapLead == 3
GapLength == 5
\* earlier processing threads followed at one time
MaxOrphans == 1

VARIABLES
    config,           \* self.config
    clock,            \* time.time()
    stream,           \* self.stream: "none", "opened", "active", "closed"
    stop_event,       \* self.stop_event
    pause_event,      \* self.pause_event
    audio_queue,      \* self.audio_queue
    transcripts,      \* self.transcripts
    cbPc,             \* capture callback: "idle", "put"
    cbFrame,          \* the callback's indata
    nextFrame,        \* frames delivered by the device so far
    procPc,           \* processing thread: "none","init","top","sleep","get",
                      \*   "classify","transcribing","append","done","crashed"
    retPc,            \* where _flush_frames returns to: "top" or "done"
    voiced_frames, pending_frames, voice_active, speech_run, last_voice_time,
    frame, now,       \* locals of _process_frames
    wav,              \* wav_bytes handed to transcribe_wav
    response,         \* what the last transcription request came back with
    entry,            \* entry of _append_transcript
    nextSeg,          \* segments created so far
    mainPc,           \* thread calling start()/stop(): "idle","stop_close","stop_join"
    startRaised,      \* the last start() ended with an exception
    orphans,          \* processing threads of earlier start() calls that still run:
                      \* where each is, and the entry it has built
    ctlPc,            \* thread calling pause()/resume(): "idle","drain"
    drainPc,          \* consumers of get_recent_transcript: "idle","locked"
    window,           \* window argument of each consumer's call, -1 for None
    cutoff,           \* cutoff of each consumer's get_recent_transcript
    recent,           \* value returned by each consumer's last call
    dequeued,         \* history: frames the loop got from the queue, in order
    flushes,          \* history: calls of _flush_frames
    pauseMark,        \* history: Len(dequeued) at the last pause() that set the flag, or -1
    resumeMark,       \* history: Len(dequeued) at the resume() that ended the last pause, or -1
    returned          \* history: the segments get_recent_transcript calls returned

vars == <<config, clock, stream, stop_event, pause_event, audio_queue, transcripts,
          cbPc, cbFrame, nextFrame, procPc, retPc, voiced_frames, pending_frames,
          voice_active, speech_run, last_voice_time, frame, now, wav, response, entry,
          nextSeg,
          mainPc, startRaised, orphans, ctlPc, drainPc, window, cutoff, recent,
          dequeued, flushes, resumeMark, returned>>

captureVars == <<cbPc, cbFrame, nextFrame>>
loopVars == <<voiced_frames, pending_frames, voice_active, speech_run, last_voice_time,
              frame, now>>
flushVars == <<wav, retPc, flushes, response>>
storeVars == <<transcripts, entry, nextSeg>>
mainVars == <<mainPc, startRaised, orphans>>
consumerVars == <<drainPc, window, cutoff, recent, returned>>

\* ---------------------------------------------------------------- data
Consumers == {1, 2}
FrameKinds == {"speech", "silence", "bad"}
NoFrame == [id |-> 0, kind |-> "none"]
NoWav == [nchannels |-> 0, sampwidth |-> 0, framerate |-> 0, data |-> <<>>]
NoEntry == [timestamp |-> 0, text |-> 0]

Max(a, b) == IF a >= b THEN a ELSE b

\* WhisperConfig as config.py defines it: it has no activation_ms field
RepoConfig ==
    [sample_rate |-> 16000, chunk_duration_ms |-> 30, silence_timeout |-> 1000,
     min_voice_ms |-> 1000, history_seconds |-> 30000]

\* a configuration object that carries activation_ms (2 frames to activate,
\* 3 frames minimum, silence timeout and history window of one clock unit)
TestConfig ==
    [sample_rate |-> 16000, chunk_duration_ms |-> 30, activation_ms |-> 60,
     silence_timeout |-> 1, min_voice_ms |-> 90, history_seconds |-> 1]

\* the scenario's configuration: 16 kHz, 30 ms frames, 3 frames to activate,
\* 10 frames minimum, 1.0 s of silence
ScenarioConfig ==
    [sample_rate |-> 16000, chunk_duration_ms |-> 30, activation_ms |-> 90,
     silence_timeout |-> 1000, min_voice_ms |-> 300, history_seconds |-> 30000]

HasActivationMs(cfg) == "activation_ms" \in DOMAIN cfg

frame_size == (config.sample_rate * config.chunk_duration_ms) \div 1000
activation_frames == Max(1, config.activation_ms \div config.chunk_duration_ms)
min_frames == Max(1, config.min_voice_ms \div config.chunk_duration_ms)
silence_limit == config.silence_timeout

\* collections.deque(maxlen=n).append(x)
DequeAppend(d, x, n) ==
    IF Len(d) >= n THEN Tail(d) \o <<x>> ELSE Append(d, x)

\* a frame on which the classifier raises counts as speech
IsSpeechRaisingCounts(f) == f.kind \in {"speech", "bad"}

\* vad.is_speech(frame, sample_rate), False when the classifier raises
IsSpeech(f) == f.kind = "speech"

\* the pre-roll loses its first frame
ExtendVoicedLossy(voiced, pending) == voiced \o Tail(pending)

\* voiced_frames.extend(pending_frames)
ExtendVoiced(voiced, pending) == voiced \o pending

\* the timeout is taken twice as long
SilenceElapsedLate(t, last, limit) == t - last > limit + limit

\* now - last_voice_time > silence_limit
SilenceElapsed(t, last, limit) == t - last > limit

\* the non-speech frame is left out of the utterance
WithTrailingDropped(voiced, f) == voiced

\* voiced_frames.append(frame) for a non-speech frame while ACTIVE
WithTrailing(voiced, f) == Append(voiced, f)

\* the minimum is off by one
TooShortOffByOne(frames, n) == Len(frames) < n - 1

\* len(frames) < min_frames
TooShort(frames, n) == Len(frames) < n

\* the store is left as it was
ClearStoreForgotten(store) == store

\* self.transcripts.clear()
ClearStore(store) == <<>>

\* each frame is written in front of the ones before it
RECURSIVE WriteFramesReversed(_, _)
WriteFramesReversed(data, frames) ==
    IF frames = <<>> THEN data
    ELSE WriteFramesReversed(<<Head(frames)>> \o data, Tail(frames))

\* for frame in frames: wave_file.writeframes(frame)
RECURSIVE WriteFrames(_, _)
WriteFrames(data, frames) ==
    IF frames = <<>> THEN data
    ELSE WriteFrames(Append(data, Head(frames)), Tail(frames))

\* _frames_to_wav: a mono, 16-bit container holding the frames in buffer order
FramesToWav(frames) ==
    [nchannels |-> 1, sampwidth |-> 2, framerate |-> config.sample_rate,
     data |-> WriteFrames(<<>>, frames)]

\* bytes of PCM data in a payload
PcmBytes(w) == Len(w.data) * frame_size * w.sampwidth

\* ---------------------------------------------------------------- initial state
InitWith(cfg) ==
    /\ config = cfg
    /\ clock = 0
    /\ stream = "none"
    /\ stop_event = FALSE
    /\ pause_event = FALSE
    /\ audio_queue = <<>>
    /\ transcripts = <<>>
    /\ cbPc = "idle"
    /\ cbFrame = NoFrame
    /\ nextFrame = 0
    /\ procPc = "none"
    /\ retPc = "top"
    /\ voiced_frames = <<>>
    /\ pending_frames = <<>>
    /\ voice_active = FALSE
    /\ speech_run = 0
    /\ last_voice_time = 0
    /\ frame = NoFrame
    /\ now = 0
    /\ wav = NoWav
    /\ response = "none"
    /\ entry = NoEntry
    /\ nextSeg = 0
    /\ mainPc = "idle"
    /\ startRaised = FALSE
    /\ orphans = <<>>
    /\ ctlPc = "idle"
    /\ drainPc = [c \in Consumers |-> "idle"]
    /\ window = [c \in Consumers |-> -1]
    /\ cutoff = [c \in Consumers |-> 0]
    /\ recent = [c \in Consumers |-> <<>>]
    /\ dequeued = <<>>
    /\ flushes = <<>>
    /\ resumeMark = -1
    /\ pauseMark = -1
    /\ returned = <<>>

Init == \E cfg \in {RepoConfig, TestConfig} : InitWith(cfg)

\* ---------------------------------------------------------------- time
Tick ==
    /\ clock < MaxClock
    /\ clock' = clock + 1
    /\ UNCHANGED <<config, stream, stop_event, pause_event, audio_queue, captureVars,
                   procPc, loopVars, flushVars, storeVars, mainVars, ctlPc,
                   consumerVars, dequeued, resumeMark, pauseMark>>


\* ---------------------------------------------------------------- capture callback
\* _audio_callback, up to the test of the pause flag; the device delivers a
\* frame of kind k
CallbackCheck(k, limit) ==
    /\ stream = "active"
    /\ cbPc = "idle"
    /\ nextFrame < limit
    /\ nextFrame' = nextFrame + 1
    /\ IF pause_event
         THEN UNCHANGED <<cbPc, cbFrame>>
         ELSE /\ cbPc' = "put"
              /\ cbFrame' = [id |-> nextFrame + 1, kind |-> k]
    /\ UNCHANGED <<config, clock, stream, stop_event, pause_event, audio_queue,
                   procPc, loopVars, flushVars, storeVars, mainVars, ctlPc,
                   consumerVars, dequeued, resumeMark, pauseMark>>

\* _audio_callback: self.audio_queue.put(bytes(indata))
CallbackPut ==
    /\ cbPc = "put"
    /\ audio_queue' = Append(audio_queue, cbFrame)
    /\ cbPc' = "idle"
    /\ cbFrame' = NoFrame
    /\ UNCHANGED <<config, clock, stream, stop_event, pause_event, nextFrame,
                   procPc, loopVars, flushVars, storeVars, mainVars, ctlPc,
                   consumerVars, dequeued, resumeMark, pauseMark>>

\* ---------------------------------------------------------------- pause / resume
\* pause() sets the flag and drains the queue even when already paused
AlreadyPausedIgnored(p) == FALSE

\* self.pause_event.is_set() as tested by pause()
AlreadyPaused(p) == p

\* pause(): test and set the flag; an already paused listener returns at once
PauseSet ==
    /\ ctlPc = "idle"
    /\ IF AlreadyPaused(pause_event)
         THEN UNCHANGED <<pause_event, ctlPc, pauseMark, resumeMark>>
         ELSE /\ pause_event' = TRUE
              /\ ctlPc' = "drain"
              /\ pauseMark' = Len(dequeued)
              /\ resumeMark' = -1
    /\ UNCHANGED <<config, clock, stream, stop_event, audio_queue, captureVars,
                   procPc, loopVars, flushVars, storeVars, mainVars,
                   consumerVars, dequeued>>

\* _clear_pending_audio: one get_nowait(); queue.Empty ends pause()
PauseDrain ==
    /\ ctlPc = "drain"
    /\ IF audio_queue # <<>>
         THEN /\ audio_queue' = Tail(audio_queue)
              /\ UNCHANGED ctlPc
         ELSE /\ ctlPc' = "idle"
              /\ UNCHANGED audio_queue
    /\ UNCHANGED <<config, clock, stream, stop_event, pause_event, captureVars,
                   procPc, loopVars, flushVars, storeVars, mainVars,
                   consumerVars, dequeued, resumeMark, pauseMark>>

\* resume()
Resume ==
    /\ ctlPc = "idle"
    /\ IF pause_event
         THEN /\ pause_event' = FALSE
              /\ resumeMark' = Len(dequeued)
         ELSE UNCHANGED <<pause_event, resumeMark>>
    /\ UNCHANGED <<config, clock, stream, stop_event, audio_queue, captureVars,
                   procPc, loopVars, flushVars, storeVars, mainVars, ctlPc,
                   consumerVars, dequeued, pauseMark>>

\* ---------------------------------------------------------------- start / stop
\* processor_thread.is_alive() of a thread that was created
ThreadAlive == procPc \notin {"none", "done", "crashed"}

\* the processing thread is created although the stream did not start
ThreadCreatedAnyway(outcome) == TRUE

\* start() reaches the creation of the processing thread
ThreadCreated(outcome) == outcome = "ok"

\* start() of a listener whose processing thread has not been created yet:
\* outcome "ok", "open_fails" (RawInputStream raises) or "start_fails"
\* (stream.start() raises); a failure propagates and no thread is created
Start(outcome) ==
    /\ mainPc = "idle"
    /\ procPc = "none"
    /\ stop_event' = FALSE
    /\ stream' = CASE outcome = "ok" -> "active"
                   [] outcome = "start_fails" -> "opened"
                   [] OTHER -> stream
    /\ procPc' = IF ThreadCreated(outcome) THEN "init" ELSE procPc
    /\ startRaised' = (outcome # "ok")
    /\ UNCHANGED <<config, clock, pause_event, audio_queue, captureVars,
                   loopVars, flushVars, storeVars, mainPc, orphans, ctlPc,
                   consumerVars, dequeued, resumeMark, pauseMark>>

\* what the model keeps of a thread that start() leaves behind: whether it
\* is inside transcribe_wav, holds an entry to append, or is elsewhere
Orphaned ==
    [pc |-> IF procPc \in {"transcribing", "append"} THEN procPc ELSE "loop",
     entry |-> IF procPc = "append" THEN entry ELSE NoEntry]

\* start() of a listener whose processing thread was created before: the
\* flag is cleared, a new stream is opened and a new thread is created
\* without a look at the old one, which runs on if it has not ended. The
\* model follows the new thread; of the old one it keeps that it is alive.
Restart(outcome) ==
    /\ mainPc = "idle"
    /\ procPc # "none"
    /\ ThreadAlive => Len(orphans) < MaxOrphans
    /\ stop_event' = FALSE
    /\ stream' = CASE outcome = "ok" -> "active"
                   [] outcome = "start_fails" -> "opened"
                   [] OTHER -> stream
    /\ IF ThreadCreated(outcome)
         THEN /\ procPc' = "init"
              /\ orphans' = IF ThreadAlive THEN Append(orphans, Orphaned) ELSE orphans
         ELSE UNCHANGED <<procPc, orphans>>
    /\ startRaised' = (outcome # "ok")
    /\ UNCHANGED <<config, clock, pause_event, audio_queue, captureVars,
                   loopVars, flushVars, storeVars, mainPc, ctlPc,
                   consumerVars, dequeued, resumeMark, pauseMark>>

\* stop(): self.stop_event.set()
StopSet ==
    /\ mainPc = "idle"
    /\ stop_event' = TRUE
    /\ mainPc' = "stop_close"
    /\ UNCHANGED <<config, clock, stream, pause_event, audio_queue, captureVars,
                   procPc, loopVars, flushVars, storeVars, ctlPc, startRaised,
                   orphans,
                   consumerVars, dequeued, resumeMark, pauseMark>>

\* stop(): stream.stop(); stream.close(), an exception being logged
StopClose(fails) ==
    /\ mainPc = "stop_close"
    /\ stream' = IF stream = "none" \/ fails THEN stream ELSE "closed"
    /\ mainPc' = "stop_join"
    /\ UNCHANGED <<config, clock, stop_event, pause_event, audio_queue, captureVars,
                   procPc, loopVars, flushVars, storeVars, ctlPc, startRaised,
                   orphans,
                   consumerVars, dequeued, resumeMark, pauseMark>>

\* the join is attempted whether or not a thread was created
ShouldJoinUnguarded(pc) == pc \notin {"done", "crashed"}

\* self.processor_thread and self.processor_thread.is_alive()
ShouldJoin(pc) == pc \notin {"none", "done", "crashed"}

\* stop(): processor_thread.join(timeout=2.0) returns when the thread has
\* ended or when the timeout expires; a join on the None of a listener that
\* was never started would raise and end stop() there
StopJoin(timeout) ==
    /\ mainPc = "stop_join"
    /\ (ShouldJoin(procPc) /\ procPc # "none") => timeout
    /\ mainPc' = IF ShouldJoin(procPc) /\ procPc = "none" THEN "raised" ELSE "idle"
    /\ UNCHANGED <<config, clock, stream, stop_event, pause_event, audio_queue,
                   captureVars, procPc, loopVars, flushVars, storeVars, ctlPc, startRaised,
                   orphans,
                   consumerVars, dequeued, resumeMark, pauseMark>>

\* ---------------------------------------------------------------- flush
\* _flush_frames(frames, min_frames), up to the call of transcribe_wav; ret is
\* where the caller goes on. The caller's voiced_frames.clear() and
\* voice_active = False are done here when the call returns at once.
FlushFrames(frames, ret) ==
    IF TooShort(frames, min_frames)
      THEN /\ flushes' = Append(flushes, [frames |-> frames, sent |-> FALSE])
           /\ voiced_frames' = <<>>
           /\ voice_active' = IF ret = "top" THEN FALSE ELSE voice_active
           /\ procPc' = ret
           /\ UNCHANGED <<wav, retPc, response>>
      ELSE /\ flushes' = Append(flushes, [frames |-> frames, sent |-> TRUE])
           /\ wav' = FramesToWav(frames)
           /\ voiced_frames' = <<>>
           /\ retPc' = ret
           /\ procPc' = "transcribing"
           /\ UNCHANGED <<voice_active, response>>

\* the return of _flush_frames into _process_frames: inside the loop the
\* caller clears the buffer and leaves ACTIVE, after the loop the thread ends
FlushReturn ==
    /\ procPc' = retPc
    /\ voice_active' = IF retPc = "top" THEN FALSE ELSE voice_active
    /\ wav' = NoWav
    /\ UNCHANGED <<voiced_frames, pending_frames, speech_run, last_voice_time,
                   frame, now, retPc, flushes>>

\* the transcripts popleft() loop of _append_transcript
RECURSIVE PruneOld(_, _)
PruneOld(store, limit) ==
    IF store # <<>> /\ Head(store).timestamp < limit
      THEN PruneOld(Tail(store), limit)
      ELSE store

\* what the transcription request can come back with: a text, an exception,
\* a response without text, a text of white space only
Responses == {"text", "raises", "no_text", "blank"}

\* the text is not stripped before it is tested
ReturnsResultUnstripped(r) == r \in {"text", "blank"}

\* transcribe_wav returns a WhisperResult, and not None
ReturnsResult(r) == r = "text"

\* transcribe_wav returns. With a result, _append_transcript builds its entry
\* before it takes the lock.
Transcribed(r) ==
    /\ procPc = "transcribing"
    /\ response' = r
    /\ IF ReturnsResult(r)
         THEN /\ entry' = [timestamp |-> clock, text |-> nextSeg + 1]
              /\ nextSeg' = nextSeg + 1
              /\ procPc' = "append"
              /\ UNCHANGED <<loopVars, wav, retPc, flushes>>
         ELSE /\ FlushReturn
              /\ UNCHANGED <<entry, nextSeg>>
    /\ UNCHANGED <<config, clock, stream, stop_event, pause_event, audio_queue,
                   transcripts, captureVars, mainVars, ctlPc, consumerVars,
                   dequeued, resumeMark, pauseMark>>

\* _append_transcript under transcript_lock: append, then prune
AppendTranscript ==
    /\ procPc = "append"
    /\ transcripts' = PruneOld(Append(transcripts, entry),
                               entry.timestamp - config.history_seconds)
    /\ entry' = NoEntry
    /\ FlushReturn
    /\ UNCHANGED <<response, config, clock, stream, stop_event, pause_event, audio_queue,
                   nextSeg, captureVars, mainVars, ctlPc, consumerVars,
                   dequeued, resumeMark, pauseMark>>

\* ---------------------------------------------------------------- earlier threads
\* the loop of an earlier thread gets a frame from the queue
OrphanGet ==
    /\ \E i \in DOMAIN orphans : orphans[i].pc = "loop"
    /\ ~stop_event
    /\ ~pause_event
    /\ audio_queue # <<>>
    /\ audio_queue' = Tail(audio_queue)
    /\ UNCHANGED <<config, clock, stream, stop_event, pause_event, captureVars,
                   procPc, loopVars, flushVars, storeVars, mainVars, ctlPc,
                   consumerVars, dequeued, resumeMark, pauseMark>>

\* transcribe_wav returns to an earlier thread, which builds its entry
OrphanTranscribed(i, r) ==
    /\ i \in DOMAIN orphans
    /\ orphans[i].pc = "transcribing"
    /\ IF ReturnsResult(r)
         THEN /\ orphans' = [orphans EXCEPT ![i] =
                                [pc |-> "append",
                                 entry |-> [timestamp |-> clock, text |-> nextSeg + 1]]]
              /\ nextSeg' = nextSeg + 1
         ELSE /\ orphans' = [orphans EXCEPT ![i] = [pc |-> "loop", entry |-> NoEntry]]
              /\ UNCHANGED nextSeg
    /\ UNCHANGED <<config, clock, stream, stop_event, pause_event, audio_queue,
                   captureVars, procPc, loopVars, flushVars, transcripts, entry,
                   mainPc, startRaised, ctlPc, consumerVars, dequeued, resumeMark,
                   pauseMark>>

\* _append_transcript of an earlier thread, under transcript_lock
OrphanAppend(i) ==
    /\ i \in DOMAIN orphans
    /\ orphans[i].pc = "append"
    /\ transcripts' = PruneOld(Append(transcripts, orphans[i].entry),
                               orphans[i].entry.timestamp - config.history_seconds)
    /\ orphans' = [orphans EXCEPT ![i] = [pc |-> "loop", entry |-> NoEntry]]
    /\ UNCHANGED <<config, clock, stream, stop_event, pause_event, audio_queue,
                   captureVars, procPc, loopVars, flushVars, entry, nextSeg,
                   mainPc, startRaised, ctlPc, consumerVars, dequeued, resumeMark,
                   pauseMark>>

\* the loop of an earlier thread finds stop_event set and the thread ends,
\* or the thread dies before its loop for want of activation_ms
OrphanExit(i) ==
    /\ i \in DOMAIN orphans
    /\ orphans[i].pc = "loop"
    /\ stop_event \/ ~HasActivationMs(config)
    /\ orphans' = SubSeq(orphans, 1, i - 1) \o SubSeq(orphans, i + 1, Len(orphans))
    /\ UNCHANGED <<config, clock, stream, stop_event, pause_event, audio_queue,
                   captureVars, procPc, loopVars, flushVars, storeVars, mainPc,
                   startRaised, ctlPc, consumerVars, dequeued, resumeMark, pauseMark>>

\* ---------------------------------------------------------------- processing loop
\* _process_frames before the loop: the thread dies on the AttributeError when
\* the configuration has no activation_ms
ProcInit ==
    /\ procPc = "init"
    /\ IF HasActivationMs(config)
         THEN /\ procPc' = "top"
              /\ voiced_frames' = <<>>
              /\ pending_frames' = <<>>
              /\ voice_active' = FALSE
              /\ speech_run' = 0
              /\ last_voice_time' = 0
              /\ frame' = NoFrame
              /\ now' = 0
         ELSE /\ procPc' = "crashed"
              /\ UNCHANGED loopVars
    /\ UNCHANGED <<config, clock, stream, stop_event, pause_event, audio_queue,
                   captureVars, flushVars, storeVars, mainVars, ctlPc, consumerVars,
                   dequeued, resumeMark, pauseMark>>

\* the paused branch of the loop
PausedBranch ==
    /\ voiced_frames' = <<>>
    /\ pending_frames' = <<>>
    /\ speech_run' = 0
    /\ procPc' = "sleep"
    /\ UNCHANGED <<voice_active, last_voice_time, frame, now, flushVars>>

\* the buffer left when the loop ends is thrown away
FinalFlushSkipped(voiced) == FALSE

\* if voiced_frames: after the loop
FinalFlushNeeded(voiced) == voiced # <<>>

\* the head of the loop: the tests of stop_event and pause_event; after the
\* loop a non-empty buffer is flushed
ProcTop ==
    /\ procPc = "top"
    /\ IF stop_event
         THEN IF FinalFlushNeeded(voiced_frames)
                THEN /\ FlushFrames(voiced_frames, "done")
                     /\ UNCHANGED <<pending_frames, speech_run, last_voice_time, frame, now>>
                ELSE /\ procPc' = "done"
                     /\ UNCHANGED <<loopVars, flushVars>>
         ELSE IF pause_event
                THEN PausedBranch
                ELSE /\ procPc' = "get"
                     /\ UNCHANGED <<loopVars, flushVars>>
    /\ UNCHANGED <<config, clock, stream, stop_event, pause_event, audio_queue,
                   captureVars, storeVars, mainVars, ctlPc, consumerVars,
                   dequeued, resumeMark, pauseMark>>

\* time.sleep(0.05); continue
ProcSleep ==
    /\ procPc = "sleep"
    /\ procPc' = "top"
    /\ UNCHANGED <<config, clock, stream, stop_event, pause_event, audio_queue,
                   captureVars, loopVars, flushVars, storeVars, mainVars, ctlPc,
                   consumerVars, dequeued, resumeMark, pauseMark>>

\* audio_queue.get(timeout=0.1) yields a frame; now = time.time(), dt after
\* the previous reading of the clock
ProcGet(dt) ==
    /\ procPc = "get"
    /\ audio_queue # <<>>
    /\ frame' = Head(audio_queue)
    /\ audio_queue' = Tail(audio_queue)
    /\ dequeued' = Append(dequeued, Head(audio_queue))
    /\ clock' = clock + dt
    /\ now' = clock + dt
    /\ procPc' = "classify"
    /\ UNCHANGED <<config, stream, stop_event, pause_event, captureVars,
                   voiced_frames, pending_frames, voice_active, speech_run,
                   last_voice_time, flushVars, storeVars, mainVars, ctlPc,
                   consumerVars, resumeMark, pauseMark>>

\* the pending window survives an empty poll
ClearPendingForgotten(pending) == pending

\* pending_frames.clear() on an empty poll
ClearPending(pending) == <<>>

\* an empty poll goes back to the head of the loop without a flush
EmptyPollIgnoresTimeout(active, elapsed) == FALSE

\* voice_active and now - last_voice_time > silence_limit, on an empty poll
EmptyPollFlushes(active, elapsed) == active /\ elapsed

\* audio_queue.get(timeout=0.1) raises queue.Empty: the frame is None and
\* now = time.time() is the clock. (frame and now are written before they are
\* read in every iteration: the model resets them when the iteration ends.)
ProcEmpty ==
    /\ procPc = "get"
    /\ audio_queue = <<>>
    /\ now' = 0
    /\ pending_frames' = ClearPending(pending_frames)
    /\ speech_run' = 0
    /\ IF EmptyPollFlushes(voice_active,
                           SilenceElapsed(clock, last_voice_time, silence_limit))
         THEN FlushFrames(voiced_frames, "top")
         ELSE /\ procPc' = "top"
              /\ UNCHANGED <<voiced_frames, voice_active, flushVars>>
    /\ UNCHANGED <<config, clock, stream, stop_event, pause_event, audio_queue,
                   captureVars, last_voice_time, frame, storeVars, mainVars, ctlPc,
                   consumerVars, dequeued, resumeMark, pauseMark>>

\* the state machine turns ACTIVE one speech frame early
RunReachedEarly(run, n) == run >= n - 1

\* speech_run >= activation_frames
RunReached(run, n) == run >= n

\* a speech frame that extends the utterance leaves last_voice_time alone
VoiceTimeStale(t, last) == last

\* last_voice_time = now for a speech frame while ACTIVE
VoiceTime(t, last) == t

\* a frame classified as speech
OnSpeech ==
    /\ speech_run' = speech_run + 1
    /\ IF voice_active
         THEN /\ voiced_frames' = Append(voiced_frames, frame)
              /\ last_voice_time' = VoiceTime(now, last_voice_time)
              /\ UNCHANGED <<pending_frames, voice_active>>
         ELSE IF RunReached(speech_run + 1, activation_frames)
                THEN /\ voice_active' = TRUE
                     /\ voiced_frames' =
                            ExtendVoiced(voiced_frames,
                                         DequeAppend(pending_frames, frame, activation_frames))
                     /\ pending_frames' = <<>>
                     /\ last_voice_time' = now
                ELSE /\ pending_frames' = DequeAppend(pending_frames, frame, activation_frames)
                     /\ UNCHANGED <<voiced_frames, voice_active, last_voice_time>>
    /\ procPc' = "top"
    /\ UNCHANGED flushVars

\* a frame classified as non-speech, or on which the classifier raised
OnNonSpeech ==
    /\ speech_run' = 0
    /\ pending_frames' = <<>>
    /\ IF voice_active
         THEN IF SilenceElapsed(now, last_voice_time, silence_limit)
                THEN FlushFrames(WithTrailing(voiced_frames, frame), "top")
                ELSE /\ voiced_frames' = WithTrailing(voiced_frames, frame)
                     /\ procPc' = "top"
                     /\ UNCHANGED <<voice_active, flushVars>>
         ELSE /\ procPc' = "top"
              /\ UNCHANGED <<voiced_frames, voice_active, flushVars>>
    /\ UNCHANGED last_voice_time

\* the classification of the dequeued frame and the state machine's step
ProcClassify ==
    /\ procPc = "classify"
    /\ IF IsSpeech(frame) THEN OnSpeech ELSE OnNonSpeech
    /\ frame' = NoFrame
    /\ now' = 0
    /\ UNCHANGED <<config, clock, stream, stop_event, pause_event, audio_queue,
                   captureVars, storeVars, mainVars, ctlPc, consumerVars,
                   dequeued, resumeMark, pauseMark>>

\* ---------------------------------------------------------------- transcript reads
\* "\n".join(texts): the texts with a separator (0) between them
RECURSIVE JoinNewline(_)
JoinNewline(texts) ==
    IF Len(texts) <= 1 THEN texts
    ELSE <<Head(texts), 0>> \o JoinNewline(Tail(texts))

\* the segment stamped exactly at the cutoff is left out
RECURSIVE RecentTextsStrict(_, _)
RecentTextsStrict(store, limit) ==
    IF store = <<>> THEN <<>>
    ELSE (IF Head(store).timestamp > limit THEN <<Head(store).text>> ELSE <<>>)
         \o RecentTextsStrict(Tail(store), limit)

\* [segment.text for segment in self.transcripts if segment.timestamp >= cutoff]
RECURSIVE RecentTexts(_, _)
RecentTexts(store, limit) ==
    IF store = <<>> THEN <<>>
    ELSE (IF Head(store).timestamp >= limit THEN <<Head(store).text>> ELSE <<>>)
         \o RecentTexts(Tail(store), limit)

\* the window argument is ignored
CutoffIgnoringWindow(t, w) == t - config.history_seconds

\* time.time() - (window if window is not None else self.config.history_seconds)
Cutoff(t, w) == t - (IF w # -1 THEN w ELSE config.history_seconds)

\* get_recent_transcript(w): the cutoff, computed before the lock is taken;
\* w = -1 stands for None
GetCutoff(c, w) ==
    /\ drainPc[c] = "idle"
    /\ window' = [window EXCEPT ![c] = w]
    /\ cutoff' = [cutoff EXCEPT ![c] = Cutoff(clock, w)]
    /\ drainPc' = [drainPc EXCEPT ![c] = "locked"]
    /\ UNCHANGED <<config, clock, stream, stop_event, pause_event, audio_queue,
                   captureVars, procPc, loopVars, flushVars, storeVars, mainVars,
                   ctlPc, recent, returned, dequeued, resumeMark, pauseMark>>

\* get_recent_transcript under transcript_lock: read, clear, then join
GetRecentTranscript(c) ==
    /\ drainPc[c] = "locked"
    /\ recent' = [recent EXCEPT ![c] = JoinNewline(RecentTexts(transcripts, cutoff[c]))]
    /\ returned' = returned \o RecentTexts(transcripts, cutoff[c])
    /\ transcripts' = ClearStore(transcripts)
    /\ drainPc' = [drainPc EXCEPT ![c] = "idle"]
    /\ UNCHANGED <<config, clock, stream, stop_event, pause_event, audio_queue,
                   captureVars, procPc, loopVars, flushVars, entry, nextSeg, mainVars,
                   ctlPc, window, cutoff, dequeued, resumeMark, pauseMark>>

\* ---------------------------------------------------------------- specifications
Next ==
    \/ Tick
    \/ \E k \in FrameKinds : CallbackCheck(k, MaxFrames)
    \/ CallbackPut
    \/ PauseSet
    \/ PauseDrain
    \/ Resume
    \/ \E o \in {"ok", "open_fails", "start_fails"} : Start(o)
    \/ StopSet
    \/ \E f \in BOOLEAN : StopClose(f)
    \/ \E t \in BOOLEAN : StopJoin(t)
    \/ ProcInit
    \/ ProcTop
    \/ ProcSleep
    \/ ProcGet(0)
    \/ ProcEmpty
    \/ ProcClassify
    \/ \E r \in Responses : Transcribed(r)
    \/ AppendTranscript

Spec == Init /\ [][Next]_vars

\* ---------------------------------------------------------------- the scenario
\* 16 kHz, 30 ms frames: ScenSpeech speech frames, then ScenSilence non-speech
\* frames, the clock advancing by one frame duration per dequeued frame and
\* the queue never running dry before the last frame
ScenFrames == ScenSpeech + ScenSilence

ScenKind(n) == IF n <= ScenSpeech THEN "speech" ELSE "silence"

ScenInit == InitWith(ScenarioConfig)

ScenNext ==
    \/ Start("ok")
    \/ (Len(audio_queue) < ScenQueue /\ CallbackCheck(ScenKind(nextFrame + 1), ScenFrames))
    \/ CallbackPut
    \/ ProcInit
    \/ ProcTop
    \/ ProcGet(config.chunk_duration_ms)
    \/ ProcClassify
    \/ \E r \in Responses : Transcribed(r)
    \/ AppendTranscript

ScenarioSpec == ScenInit /\ [][ScenNext]_vars

\* ---------------------------------------------------------------- the store
\* The transcript store with its writer and two readers. The segmentation is
\* left out: StoreFlush stands for the loop reaching transcribe_wav with an
\* utterance of at least min_frames frames.
\* a step of the processing thread
ProcStep ==
    \/ ProcInit \/ ProcTop \/ ProcSleep \/ ProcGet(0) \/ ProcEmpty \/ ProcClassify
    \/ \E r \in Responses : Transcribed(r)
    \/ AppendTranscript

\* the pipeline with a processing thread that is scheduled and whose
\* transcription requests return. Of stop() only the setting of stop_event is
\* kept: the close and the join write fields the loop does not read.
LiveNext ==
    \/ Tick
    \/ \E k \in {"speech", "silence"} : CallbackCheck(k, MaxFrames)
    \/ CallbackPut
    \/ PauseSet \/ PauseDrain \/ Resume
    \/ Start("ok")
    \/ StopSet
    \/ ProcStep

LiveSpec == Init /\ [][LiveNext]_vars /\ WF_vars(ProcStep)

\* the same, with time that passes
TimedSpec == Init /\ [][LiveNext]_vars /\ WF_vars(ProcStep) /\ WF_vars(Tick)

\* an utterance with a pause for breath: GapLead speech frames, GapLength
\* non-speech frames, GapLead speech frames again, then ScenSilence
\* non-speech frames
GapFrames == GapLead + GapLength + GapLead + ScenSilence

GapKind(n) ==
    IF n <= GapLead THEN "speech"
    ELSE IF n <= GapLead + GapLength THEN "silence"
    ELSE IF n <= GapLead + GapLength + GapLead THEN "speech"
    ELSE "silence"

GapNext ==
    \/ Start("ok")
    \/ (Len(audio_queue) < ScenQueue /\ CallbackCheck(GapKind(nextFrame + 1), GapFrames))
    \/ CallbackPut
    \/ ProcInit
    \/ ProcTop
    \/ ProcGet(config.chunk_duration_ms)
    \/ ProcClassify
    \/ \E r \in Responses : Transcribed(r)
    \/ AppendTranscript

GapSpec == ScenInit /\ [][GapNext]_vars

\* start() and stop() called in any order, with the capture callback and the
\* processing threads
RestartNext ==
    \/ CallbackCheck("speech", MaxFrames)
    \/ CallbackPut
    \/ \E outcome \in {"ok", "open_fails", "start_fails"} : Start(outcome)
    \/ \E outcome \in {"ok", "open_fails", "start_fails"} : Restart(outcome)
    \/ StopSet
    \/ \E fails \in BOOLEAN : StopClose(fails)
    \/ \E timeout \in BOOLEAN : StopJoin(timeout)
    \/ PauseSet \/ PauseDrain \/ Resume
    \/ ProcStep
    \/ OrphanGet
    \/ \E i \in 1 .. MaxOrphans : \E r \in Responses : OrphanTranscribed(i, r)
    \/ \E i \in 1 .. MaxOrphans : OrphanAppend(i)
    \/ \E i \in 1 .. MaxOrphans : OrphanExit(i)

RestartSpec == Init /\ [][RestartNext]_vars

StoreInit == InitWith(TestConfig)

StoreFlush ==
    /\ procPc = "top"
    /\ nextSeg < MaxSegments
    /\ procPc' = "transcribing"
    /\ retPc' = "top"
    /\ UNCHANGED <<config, clock, stream, stop_event, pause_event, audio_queue,
                   captureVars, loopVars, wav, flushes, response, storeVars, mainVars, ctlPc,
                   consumerVars, dequeued, resumeMark, pauseMark>>

StoreNext ==
    \/ Tick
    \/ Start("ok")
    \/ ProcInit
    \/ StoreFlush
    \/ \E r \in Responses : Transcribed(r)
    \/ AppendTranscript
    \/ \E c \in Consumers : \E w \in {-1, 0} : GetCutoff(c, w)
    \/ \E c \in Consumers : GetRecentTranscript(c)

StoreSpec == StoreInit /\ [][StoreNext]_vars

\* the transcript store with a second start(): the thread left behind, caught
\* inside transcribe_wav or with its entry built, appends beside the new one
SharedStoreNext ==
    \/ Tick \/ Start("ok") \/ ProcInit \/ StoreFlush
    \/ \E r \in Responses : Transcribed(r)
    \/ AppendTranscript
    \/ Restart("ok")
    \/ \E i \in 1 .. MaxOrphans : \E r \in Responses : OrphanTranscribed(i, r)
    \/ \E i \in 1 .. MaxOrphans : OrphanAppend(i)

SharedStoreSpec == StoreInit /\ [][SharedStoreNext]_vars

\* ---------------------------------------------------------------- properties
Range(q) == {q[i] : i \in DOMAIN q}

Count(q, x) == Cardinality({i \in DOMAIN q : q[i] = x})

LastN(q, n) == SubSeq(q, Len(q) - n + 1, Len(q))

AllSpeech(q) == \A i \in DOMAIN q : q[i].kind = "speech"

SentFlushes == {i \in DOMAIN flushes : flushes[i].sent}

\* C1: transcribe_wav is only ever called with a payload of at least
\* min_frames frames, and a flush is discarded exactly when its buffer holds
\* fewer than min_frames frames.
C1_MinFramesOnly ==
    /\ procPc = "transcribing" => Len(wav.data) >= min_frames
    /\ \A i \in DOMAIN flushes :
          flushes[i].sent <=> Len(flushes[i].frames) >= min_frames

C1_Witness ==
    /\ procPc = "transcribing"
    /\ Len(wav.data) >= min_frames
    /\ stop_event

\* C2: at the step that takes the state machine from IDLE to ACTIVE, the
\* utterance buffer is exactly the last activation_frames dequeued frames, in
\* dequeue order, all of them speech, and the pending window is empty.
C2_PreRoll ==
    [][(~voice_active /\ voice_active') =>
          /\ Len(voiced_frames') = activation_frames
          /\ voiced_frames' = LastN(dequeued', activation_frames)
          /\ AllSpeech(voiced_frames')
          /\ pending_frames' = <<>>]_vars

C2_Witness ==
    /\ voice_active
    /\ activation_frames = 2
    /\ Len(voiced_frames) = 2
    /\ voiced_frames = LastN(dequeued, 2)
    /\ voiced_frames[1].id < voiced_frames[2].id

\* the scenario has run to its end: every frame was dequeued and processed
ScenDone ==
    /\ Len(dequeued) = ScenFrames
    /\ procPc \in {"top", "get"}

\* C3: in the scenario exactly one flush reaches transcribe_wav (and no flush
\* is discarded), and the state machine ends in IDLE.
C3_OneFlush ==
    /\ Cardinality(SentFlushes) <= 1
    /\ ScenDone => /\ Len(flushes) = 1
                   /\ Cardinality(SentFlushes) = 1
                   /\ ~voice_active
                   /\ voiced_frames = <<>>

C3_Witness ==
    /\ ScenDone
    /\ Cardinality(SentFlushes) = 1

\* C4 as claimed: in the scenario the utterance handed to transcribe_wav holds
\* exactly the ScenSpeech speech frames, ScenSpeech * 480 * 2 bytes of PCM data.
C4_Claimed ==
    procPc = "transcribing" =>
        /\ Len(wav.data) = ScenSpeech
        /\ PcmBytes(wav) = ScenSpeech * 480 * 2

\* frames of silence that pass before the timeout is exceeded
ScenTrailing == (config.silence_timeout \div config.chunk_duration_ms) + 1

\* C4 amended: in the scenario the utterance handed to transcribe_wav holds
\* the ScenSpeech speech frames followed by the non-speech frames dequeued up
\* to and including the first one that arrives more than silence_timeout
\* after the last speech frame (34 of them: 47 frames, 47 * 480 * 2 bytes).
C4_WithTrailingSilence ==
    procPc = "transcribing" =>
        /\ Len(wav.data) = ScenSpeech + ScenTrailing
        /\ wav.data = SubSeq(dequeued, 1, ScenSpeech + ScenTrailing)
        /\ AllSpeech(SubSeq(wav.data, 1, ScenSpeech))
        /\ \A i \in ScenSpeech + 1 .. Len(wav.data) : wav.data[i].kind = "silence"
        /\ frame_size = 480
        /\ PcmBytes(wav) = (ScenSpeech + ScenTrailing) * 480 * 2

C4_Witness ==
    /\ procPc = "transcribing"
    /\ ScenTrailing = 34
    /\ Len(wav.data) = ScenSpeech + 34

\* position in dequeue order of a frame the loop holds
Pos(f) == CHOOSE j \in DOMAIN dequeued : dequeued[j].id = f.id

\* activation_frames consecutive speech frames were dequeued after the m-th
SpeechRunAfter(m) ==
    \E j \in (m + 1) .. (Len(dequeued) - activation_frames + 1) :
        \A k \in j .. (j + activation_frames - 1) : dequeued[k].kind = "speech"

\* C5 as claimed: after pause() followed by resume() the state machine is in
\* IDLE: the utterance buffer holds no frame dequeued after the resume()
\* unless activation_frames consecutive speech frames were dequeued after it.
C5_Claimed ==
    (/\ resumeMark >= 0
     /\ \E i \in DOMAIN voiced_frames : Pos(voiced_frames[i]) > resumeMark)
        => SpeechRunAfter(resumeMark)

\* pause() returns: its drain loop meets the empty queue
PauseReturns == ctlPc = "drain" /\ ctlPc' = "idle"

\* between the return of pause() and the call of resume()
PausedReturned == pause_event /\ ctlPc = "idle"

\* C6 as claimed: when pause() returns while the loop is mid-utterance
\* (ACTIVE), the utterance buffer and the pending window are empty in the
\* state reached.
C6_Claimed ==
    [][(PauseReturns /\ voice_active') =>
          (voiced_frames' = <<>> /\ pending_frames' = <<>>)]_vars

\* C7 as claimed: from the return of pause() to the call of resume() the
\* frame queue is empty and the loop classifies no frame.
C7_Claimed ==
    /\ [](PausedReturned => audio_queue = <<>>)
    /\ [][PausedReturned => ~(procPc = "classify" /\ procPc' # "classify")]_vars

\* C8 as claimed: with the configuration of config.py, once start() has
\* returned the processing loop runs until stop is signalled.
C8_Claimed ==
    (config = RepoConfig /\ procPc # "none" /\ ~stop_event)
        => procPc \notin {"crashed", "done"}

\* C9: a drain leaves the store empty, a drain that meets an empty store
\* returns the empty string, and no segment is returned by more than one call.
C9_DestructiveRead ==
    /\ [](\A t \in 1 .. nextSeg : Count(returned, t) <= 1)
    /\ [][\A c \in Consumers :
            (drainPc[c] = "locked" /\ drainPc'[c] = "idle") =>
                /\ transcripts' = <<>>
                /\ transcripts = <<>> => recent'[c] = <<>>]_vars

C9_Witness ==
    /\ \E t \in 1 .. nextSeg : Count(returned, t) = 1
    /\ recent[1] # <<>>
    /\ recent[2] = <<>>
    /\ transcripts = <<>>
    /\ nextSeg >= 2

\* the segments that were appended to the store
Appended == {t \in 1 .. nextSeg : entry.text # t}

\* C10 as claimed: every segment that has left the store was returned by
\* exactly one call.
C10_Claimed ==
    \A t \in Appended :
        (\A i \in DOMAIN transcripts : transcripts[i].text # t) => Count(returned, t) = 1

\* C10 amended: a segment leaves the store either returned by the drain that
\* removes it, and by no other call, or unreturned because it is older than
\* the window: pruned by an append whose entry is more than history_seconds
\* newer, or cleared by a drain whose cutoff lies after its timestamp.
C10_AtMostOnce ==
    [][\A i \in DOMAIN transcripts :
          LET seg == transcripts[i] IN
          seg \notin Range(transcripts') =>
              \/ /\ Count(returned, seg.text) = 0
                 /\ Count(returned', seg.text) = 1
                 /\ \E c \in Consumers : /\ drainPc[c] = "locked"
                                         /\ drainPc'[c] = "idle"
                                         /\ seg.timestamp >= cutoff[c]
              \/ /\ returned' = returned
                 /\ procPc = "append"
                 /\ seg.timestamp < entry.timestamp - config.history_seconds
              \/ /\ Count(returned', seg.text) = 0
                 /\ \E c \in Consumers : /\ drainPc[c] = "locked"
                                         /\ drainPc'[c] = "idle"
                                         /\ seg.timestamp < cutoff[c]]_vars

C10_Witness ==
    /\ \E t \in Appended : /\ \A i \in DOMAIN transcripts : transcripts[i].text # t
                           /\ Count(returned, t) = 0
    /\ \E t \in Appended : Count(returned, t) = 1

\* the stored segments stamped at or after t - w, in store order
InWindow(store, t, w) == SelectSeq(store, LAMBDA seg : seg.timestamp >= t - w)

\* q is the texts of segs, in order, with one separator between neighbours
IsJoinOf(q, segs) ==
    /\ Len(q) = (IF segs = <<>> THEN 0 ELSE 2 * Len(segs) - 1)
    /\ \A i \in DOMAIN segs : q[2 * i - 1] = segs[i].text
    /\ \A i \in 1 .. Len(segs) - 1 : q[2 * i] = 0

\* the window in force: the argument, or history_seconds for None
EffectiveWindow(c) == IF window[c] = -1 THEN config.history_seconds ELSE window[c]

\* C11: a call made at time t with window w (history_seconds by default)
\* returns the texts of exactly the stored segments with timestamp >= t - w,
\* joined by newlines in insertion order.
C11_Windowing ==
    /\ [](\A c \in Consumers :
            drainPc[c] = "locked" => cutoff[c] <= clock - EffectiveWindow(c))
    /\ [][\A c \in Consumers :
            /\ (drainPc[c] = "idle" /\ drainPc'[c] = "locked") =>
                  cutoff'[c] = clock - EffectiveWindow(c)'
            /\ (drainPc[c] = "locked" /\ drainPc'[c] = "idle") =>
                  IsJoinOf(recent'[c],
                           InWindow(transcripts, cutoff[c] + EffectiveWindow(c),
                                    EffectiveWindow(c)))]_vars

\* the example: of three segments stamped 0, 1 and 2 with a window of 1, a
\* call at 2 returns the second and the third, in that order
C11_Witness ==
    /\ nextSeg = 3
    /\ recent[1] = <<2, 0, 3>>
    /\ window[1] = -1
    /\ cutoff[1] = 1
    /\ returned = <<2, 3>>

\* the loop is between two iterations: every dequeued frame was processed
BetweenFrames == procPc \in {"top", "get", "sleep", "done"}

\* C12: as long as no activation_frames consecutive speech frames were
\* dequeued, the state machine is never ACTIVE, the utterance buffer is empty
\* and nothing is flushed, however much time passes; and once a non-speech
\* frame has broken a run the pending window is empty and the run counter 0.
C12_NoActivation ==
    /\ (ThreadAlive /\ procPc # "init" /\ ~SpeechRunAfter(0)) =>
          /\ ~voice_active
          /\ voiced_frames = <<>>
          /\ flushes = <<>>
          /\ procPc # "transcribing"
    /\ (BetweenFrames /\ dequeued # <<>> /\ ~IsSpeech(dequeued[Len(dequeued)])) =>
          /\ pending_frames = <<>>
          /\ speech_run = 0

\* one speech frame (activation_frames = 2), then non-speech frames while
\* more than silence_timeout passes
C12_Witness ==
    /\ Len(dequeued) = 3
    /\ activation_frames = 2
    /\ dequeued[1].kind = "speech"
    /\ dequeued[2].kind = "silence"
    /\ dequeued[3].kind = "silence"
    /\ clock > config.silence_timeout
    /\ procPc = "get"
    /\ audio_queue = <<>>
    /\ flushes = <<>>
    /\ pending_frames = <<>>

\* transcribe_wav returns to _flush_frames
TranscribeReturns == procPc = "transcribing" /\ procPc' # "transcribing"

\* the identifiers of the frames of the i-th flush
FlushIds(i) == {flushes[i].frames[k].id : k \in DOMAIN flushes[i].frames}

\* C13: when the transcription request raises, answers without text or
\* answers white space, the flush returns at once to its caller: the
\* utterance buffer is empty, the queue and the store are as they were, no
\* entry is built, no further request is made for these frames, and the loop
\* is back at its head (or, after the final flush, the thread ends). No frame
\* is flushed twice, no dequeued frame is on the queue again, and there are
\* never more segments than requests.
C13_Discarded ==
    /\ [][(TranscribeReturns /\ response' # "text") =>
             /\ voiced_frames' = <<>>
             /\ audio_queue' = audio_queue
             /\ transcripts' = transcripts
             /\ entry' = NoEntry
             /\ nextSeg' = nextSeg
             /\ flushes' = flushes
             /\ wav' = NoWav
             /\ procPc' = retPc
             /\ retPc = "top" => ~voice_active']_vars
    /\ [](\A i, j \in DOMAIN flushes : i # j => FlushIds(i) \cap FlushIds(j) = {})
    /\ [](\A i \in DOMAIN audio_queue : \A j \in DOMAIN dequeued :
             audio_queue[i].id # dequeued[j].id)
    /\ [](nextSeg <= Cardinality(SentFlushes))

\* the request of the scenario's utterance has failed and the loop has gone
\* on to process the frames that follow it, without a segment or another flush
C13_Witness ==
    /\ response = "raises"
    /\ ScenDone
    /\ Len(dequeued) > Len(flushes[1].frames)
    /\ Len(flushes) = 1
    /\ transcripts = <<>>
    /\ nextSeg = 0
    /\ voiced_frames = <<>>

\* the loop has classified the dequeued frame and ended the iteration
ClassifyStep == procPc = "classify" /\ procPc' # "classify"

\* the transition of a non-speech frame, written out from the state before it
NonSpeechTransition ==
    /\ speech_run' = 0
    /\ pending_frames' = <<>>
    /\ last_voice_time' = last_voice_time
    /\ IF ~voice_active
         THEN /\ voiced_frames' = voiced_frames
              /\ ~voice_active'
              /\ flushes' = flushes
              /\ procPc' = "top"
         ELSE IF now - last_voice_time > silence_limit
                THEN /\ Len(flushes') = Len(flushes) + 1
                     /\ flushes'[Len(flushes')].frames = Append(voiced_frames, frame)
                     /\ voiced_frames' = <<>>
                     /\ procPc' \in {"top", "transcribing"}
                     /\ procPc' = "top" => ~voice_active'
                ELSE /\ voiced_frames' = Append(voiced_frames, frame)
                     /\ voice_active'
                     /\ flushes' = flushes
                     /\ procPc' = "top"

\* C14: the step that classifies a frame on which the classifier raises is
\* the non-speech transition, the one taken for a frame classified
\* non-speech, and the loop goes on.
C14_RaisesIsNonSpeech ==
    /\ [][(ClassifyStep /\ frame.kind = "bad") => NonSpeechTransition]_vars
    /\ [][(ClassifyStep /\ frame.kind = "silence") => NonSpeechTransition]_vars
    /\ [][ClassifyStep => procPc' \in {"top", "transcribing"}]_vars

\* while ACTIVE a frame on which the classifier raised was appended to the
\* utterance and the loop is back at its head
C14_Witness ==
    /\ voice_active
    /\ Len(voiced_frames) = 3
    /\ voiced_frames[3].kind = "bad"
    /\ speech_run = 0
    /\ procPc = "top"

\* C15 as claimed: the capture device is closed only after the processing
\* loop has made its final flush and terminated.
C15_Claimed ==
    [][(stream # "closed" /\ stream' = "closed") => ~ThreadAlive]_vars

\* the loop leaves its while: the head of the loop finds stop_event set
LoopExits == procPc = "top" /\ stop_event /\ procPc' # "top"

\* C16: once stop is signalled a running processing thread eventually ends.
\* The step that leaves the loop flushes a non-empty buffer under the
\* min_frames rule: a buffer of at least min_frames frames goes to
\* transcribe_wav, a shorter one is dropped and the thread ends; after
\* that step nothing is flushed again and the buffer stays empty.
C16_StopTerminates ==
    /\ (stop_event /\ ThreadAlive) ~> ~ThreadAlive
    /\ [][LoopExits =>
             IF voiced_frames = <<>>
               THEN procPc' = "done" /\ flushes' = flushes
               ELSE /\ flushes' = Append(flushes,
                                         [frames |-> voiced_frames,
                                          sent |-> Len(voiced_frames) >= min_frames])
                    /\ voiced_frames' = <<>>
                    /\ IF Len(voiced_frames) >= min_frames
                         THEN /\ procPc' = "transcribing"
                              /\ retPc' = "done"
                              /\ wav'.data = voiced_frames
                         ELSE procPc' = "done"]_vars
    /\ [][(procPc = "done" \/ (procPc \in {"transcribing", "append"} /\ retPc = "done")) =>
             /\ flushes' = flushes
             /\ voiced_frames' = <<>>
             /\ procPc' \in {"transcribing", "append", "done"}]_vars

\* stop found the loop with a buffer of min_frames frames: the thread has
\* ended after one flush, which reached transcribe_wav
C16_Witness ==
    /\ procPc = "done"
    /\ stop_event
    /\ retPc = "done"
    /\ Len(flushes) = 1
    /\ flushes[1].sent
    /\ response \in Responses

\* a step of stop()
StopStep == mainPc' # mainPc

\* C17: stop() never raises, whether the processing thread was never
\* started, has ended or is still running, and whether or not the close of
\* the stream fails. Its steps write nothing but stop_event (to set) and the
\* stream (to closed); a stop() that finds stop_event set and the stream
\* closed or absent changes nothing.
C17_StopIdempotent ==
    /\ [](mainPc # "raised")
    /\ [][StopStep =>
             /\ stop_event'
             /\ stream' \in {stream, "closed"}
             /\ UNCHANGED <<config, clock, pause_event, audio_queue, captureVars,
                            procPc, loopVars, flushVars, storeVars, ctlPc, startRaised,
                   orphans,
                            consumerVars, dequeued, resumeMark, pauseMark>>]_vars
    /\ [][(StopStep /\ stop_event /\ stream \in {"none", "closed"}) =>
             UNCHANGED <<stop_event, stream>>]_vars

\* a second stop() is under way: the stream was closed by the first one and
\* the processing thread has ended
C17_Witness ==
    /\ mainPc = "stop_close"
    /\ stream = "closed"
    /\ stop_event
    /\ procPc = "done"

\* a step of pause() or resume() that writes something
ControlStep == ctlPc' # ctlPc \/ pause_event' # pause_event

\* C18: on a paused listener pause() does nothing: it starts no drain and
\* leaves the flag set; on a listener that is not paused resume() does
\* nothing, so that only pause() writes there, setting the flag and starting
\* its drain. No step of pause() or resume() writes the segmentation state
\* or the store, and only the drain of a first pause() takes frames off the
\* queue.
C18_PauseResumeIdempotent ==
    /\ [][(ctlPc = "idle" /\ pause_event /\ pause_event') => ctlPc' = "idle"]_vars
    /\ [][(ctlPc = "idle" /\ ~pause_event) =>
             /\ ControlStep => (pause_event' /\ ctlPc' = "drain")
             /\ ~ControlStep => UNCHANGED <<resumeMark, pauseMark>>]_vars
    /\ [][ControlStep =>
             UNCHANGED <<procPc, loopVars, flushVars, storeVars, dequeued>>]_vars
    /\ [][(ControlStep /\ ctlPc = "idle") => audio_queue' = audio_queue]_vars

\* pause() has returned and resume() was not called: the loop has not polled
\* the flag yet and the callback has put a frame after the drain, so that a
\* second pause() that drained again would be seen
C18_Witness ==
    /\ pause_event
    /\ ctlPc = "idle"
    /\ audio_queue # <<>>
    /\ voiced_frames # <<>>
    /\ pauseMark >= 1

\* C19: while the last start() is one that raised, because the stream could
\* not be opened or started, no processing thread exists, the stream is not
\* running, and no frame was put on the queue, dequeued or classified; a
\* processing thread exists only after a start() that did not raise.
C19_StartFails ==
    /\ startRaised =>
          /\ procPc = "none"
          /\ stream # "active"
          /\ audio_queue = <<>>
          /\ cbPc = "idle"
          /\ nextFrame = 0
          /\ dequeued = <<>>
          /\ flushes = <<>>
    /\ procPc # "none" => (~startRaised /\ stream \in {"active", "closed"})

\* stream.start() has raised: the stream is open, no thread was created
C19_Witness ==
    /\ startRaised
    /\ stream = "opened"
    /\ procPc = "none"
    /\ mainPc = "idle"
    /\ ~stop_event

\* the utterance q holds a frame dequeued before the last pause() and a
\* frame dequeued after the resume() that ended it
SpansPause(q) ==
    /\ pauseMark >= 0
    /\ resumeMark >= pauseMark
    /\ ~pause_event
    /\ \E i, j \in DOMAIN q : Pos(q[i]) <= pauseMark /\ Pos(q[j]) > resumeMark

\* C20 as claimed: no utterance handed to transcribe_wav holds a frame
\* dequeued before a pause() together with a frame dequeued after the
\* matching resume().
C20_Claimed ==
    procPc = "transcribing" => ~SpansPause(wav.data)

\* a flush made inside the loop: by a classified frame or by an empty poll
LoopFlush == Len(flushes') > Len(flushes) /\ procPc \in {"classify", "get"}

\* the frames of the utterance with the pause for breath, to the first
\* non-speech frame that arrives more than silence_timeout after the last
\* speech frame
GapUtterance == GapLead + GapLength + GapLead + ScenTrailing

GapDone == Len(dequeued) = GapFrames /\ procPc \in {"top", "get"}

\* C21: while ACTIVE the dequeued frame is appended to the utterance buffer
\* whatever its kind, and a speech frame sets last_voice_time to now and
\* flushes nothing; the loop flushes only from ACTIVE, and only when a
\* non-speech frame or an empty poll finds now - last_voice_time greater than
\* silence_timeout; the state machine leaves ACTIVE only by such a flush. A
\* non-speech gap shorter than the timeout followed by speech is one
\* utterance: one flush, holding the gap.
C21_OneUtterance ==
    /\ [][(ClassifyStep /\ voice_active) =>
             /\ \/ voiced_frames' = Append(voiced_frames, frame)
                \/ /\ LoopFlush
                   /\ flushes'[Len(flushes')].frames = Append(voiced_frames, frame)
             /\ frame.kind = "speech" =>
                   /\ last_voice_time' = now
                   /\ voiced_frames' = Append(voiced_frames, frame)
                   /\ voice_active'
                   /\ ~LoopFlush]_vars
    /\ [][LoopFlush =>
             /\ voice_active
             /\ procPc = "classify" =>
                   (frame.kind # "speech" /\ now - last_voice_time > config.silence_timeout)
             /\ procPc = "get" =>
                   (audio_queue = <<>> /\ clock - last_voice_time > config.silence_timeout)]_vars
    /\ [][(voice_active /\ ~voice_active') =>
             /\ flushes' # <<>>
             /\ procPc' = "top"
             /\ LoopFlush \/ (procPc \in {"transcribing", "append"} /\ retPc = "top")]_vars
    /\ [](Len(flushes) <= 1)
    /\ [](GapDone =>
             /\ Len(flushes) = 1
             /\ flushes[1].frames = SubSeq(dequeued, 1, GapUtterance)
             /\ ~voice_active)

\* the utterance with its pause for breath was flushed once
C21_Witness ==
    /\ GapDone
    /\ Len(flushes) = 1
    /\ Len(flushes[1].frames) = GapUtterance
    /\ flushes[1].frames[GapLead + 1].kind = "silence"
    /\ flushes[1].frames[GapLead + GapLength + 1].kind = "speech"
    /\ flushes[1].sent

\* the get of the loop times out on an empty queue
EmptyPoll == procPc = "get" /\ procPc' # "get" /\ audio_queue = <<>>

\* the clock of the model can still pass the silence timeout
TimeoutInReach == last_voice_time + config.silence_timeout < MaxClock

\* C22: an empty poll that finds the state ACTIVE and more than
\* silence_timeout passed since the last speech frame flushes the utterance
\* buffer under the min_frames rule and empties it; the state is IDLE when the
\* flush has returned. So a running, unpaused loop that is ACTIVE eventually
\* leaves ACTIVE once frames stop coming (unless stop or pause intervene).
C22_EmptyPollCloses ==
    /\ [][(EmptyPoll /\ voice_active /\ clock - last_voice_time > config.silence_timeout) =>
             /\ flushes' = Append(flushes,
                                  [frames |-> voiced_frames,
                                   sent |-> Len(voiced_frames) >= min_frames])
             /\ voiced_frames' = <<>>
             /\ IF Len(voiced_frames) >= min_frames
                  THEN /\ procPc' = "transcribing"
                       /\ retPc' = "top"
                       /\ wav'.data = voiced_frames
                  ELSE /\ procPc' = "top"
                       /\ ~voice_active']_vars
    /\ [][(procPc \in {"transcribing", "append"} /\ retPc = "top" /\ procPc' = "top") =>
             (~voice_active' /\ voiced_frames' = <<>>)]_vars
    /\ (voice_active /\ ThreadAlive /\ TimeoutInReach)
          ~> (~voice_active \/ pause_event \/ stop_event \/ ~TimeoutInReach)

\* an empty poll has flushed an utterance that ends with a speech frame
C22_Witness ==
    /\ procPc = "transcribing"
    /\ retPc = "top"
    /\ audio_queue = <<>>
    /\ wav.data = dequeued
    /\ dequeued[Len(dequeued)].kind = "speech"
    /\ ~stop_event

\* processing loops that are alive
AliveLoops == Len(orphans) + (IF ThreadAlive THEN 1 ELSE 0)

\* C23 as claimed: under any sequence of start() and stop() calls at most one
\* processing loop is alive.
C23_Claimed == AliveLoops <= 1

\* the identifiers of q grow: q is in the order of the capture callback,
\* without a frame twice
InCaptureOrder(q) == \A i \in 1 .. Len(q) - 1 : q[i].id < q[i + 1].id

\* q is a run of consecutive dequeued frames
ContiguousRun(q) ==
    q = <<>> \/ \E a \in DOMAIN dequeued :
                   /\ a + Len(q) - 1 <= Len(dequeued)
                   /\ q = SubSeq(dequeued, a, a + Len(q) - 1)

StoreOrdered ==
    \A i \in 1 .. Len(transcripts) - 1 :
        transcripts[i].timestamp <= transcripts[i + 1].timestamp

\* no segment of the store is more than history_seconds older than the newest
StoreWithinHistory ==
    \A i \in DOMAIN transcripts :
        transcripts[i].timestamp >=
            transcripts[Len(transcripts)].timestamp - config.history_seconds

\* C25 as claimed: after every append the store is ordered by non-decreasing
\* timestamp and every retained segment is at most history_seconds older
\* than the newest one.
C25_Claimed == StoreOrdered /\ StoreWithinHistory

\* C26: an empty poll in IDLE empties the pending window, sets the run
\* counter to 0 and changes nothing else of the state machine; the pending
\* window only grows by the speech frame just dequeued, and the utterance
\* starts as the pending window with that frame, so the speech frames seen
\* before an empty poll are in no later utterance and activation needs
\* activation_frames speech frames with nothing between them. An empty poll
\* in ACTIVE before the timeout leaves the utterance buffer, the ACTIVE state
\* and last_voice_time as they are.
C26_EmptyPollResets ==
    /\ [][(EmptyPoll /\ ~voice_active) =>
             /\ pending_frames' = <<>>
             /\ speech_run' = 0
             /\ ~voice_active'
             /\ voiced_frames' = voiced_frames
             /\ flushes' = flushes
             /\ procPc' = "top"]_vars
    /\ [][(EmptyPoll /\ voice_active /\ clock - last_voice_time <= config.silence_timeout) =>
             /\ voiced_frames' = voiced_frames
             /\ voice_active'
             /\ last_voice_time' = last_voice_time
             /\ flushes' = flushes
             /\ procPc' = "top"]_vars
    /\ [][pending_frames' # pending_frames =>
             \/ pending_frames' = <<>>
             \/ /\ ClassifyStep
                /\ frame.kind = "speech"
                /\ pending_frames' = Append(pending_frames, frame)]_vars
    /\ [][(~voice_active /\ voice_active') =>
             /\ ClassifyStep
             /\ voiced_frames' = Append(pending_frames, frame)
             /\ speech_run' = activation_frames
             /\ Len(pending_frames) = speech_run]_vars
    /\ []((BetweenFrames /\ ThreadAlive /\ ~voice_active) =>
             /\ Len(pending_frames) = speech_run
             /\ speech_run < activation_frames
             /\ pending_frames = LastN(dequeued, speech_run))

\* two speech frames in a row were dequeued (activation_frames = 2) with an
\* empty poll between them, and pause() was never called: the state is IDLE
\* and the pending window holds the second frame only
C26_Witness ==
    /\ Len(dequeued) = 2
    /\ AllSpeech(dequeued)
    /\ pauseMark = -1
    /\ procPc = "top"
    /\ ~voice_active
    /\ activation_frames = 2
    /\ pending_frames = <<dequeued[2]>>
    /\ speech_run = 1

====
